---- MODULE Spec2Model ----
(***************************************************************************)
(* Model of tts_cache_proxy.py: a single-threaded HTTPServer whose handler *)
(* TTSProxyHandler answers OPTIONS and POST on /v1/audio/speech, serving   *)
(* cached mp3 files from CACHE_DIR or forwarding to the upstream and       *)
(* storing the answer with a temp-file write followed by os.replace.       *)
(*                                                                         *)
(* Strings that the code inspects character by character (header values,   *)
(* keys) are sequences of one-character strings.  File contents and audio  *)
(* bodies are sequences of bytes.  sha256 is modelled as collision free:   *)
(* the digest of a text is the text tagged with "sha256".                  *)
(***************************************************************************)
EXTENDS Integers, Sequences, FiniteSets, TLC

(* ---------------- bounds ---------------- *)
\* length in bytes of an upstream audio body
BodyLen == 2
\* number of distinct audio bodies the upstream can return
NBodies == 2

(* ---------------- program constants ---------------- *)
SPEECH_PATH == <<"v1", "audio", "speech">>
OTHER_PATH == <<"v1", "models">>
MaxKeyLen == 64
None == <<"None">>

(* ---------------- sequences ---------------- *)
Take(s, n) == SubSeq(s, 1, IF Len(s) < n THEN Len(s) ELSE n)

RECURSIVE LStrip(_, _)
LStrip(s, chars) ==
    IF s # <<>> /\ Head(s) \in chars THEN LStrip(Tail(s), chars) ELSE s

RECURSIVE RStrip(_, _)
RStrip(s, chars) ==
    IF s # <<>> /\ s[Len(s)] \in chars
    THEN RStrip(SubSeq(s, 1, Len(s) - 1), chars)
    ELSE s

\* str.strip(chars)
Strip(s, chars) == RStrip(LStrip(s, chars), chars)

\* ''.join(c for c in s if Keep(c))
RECURSIVE FilterChars(_, _)
FilterChars(s, keep) ==
    IF s = <<>> THEN <<>>
    ELSE IF Head(s) \in keep THEN <<Head(s)>> \o FilterChars(Tail(s), keep)
    ELSE FilterChars(Tail(s), keep)

(* ---------------- request inputs ---------------- *)
Methods == {"POST", "OPTIONS", "GET"}
Paths == {SPEECH_PATH, OTHER_PATH}

\* Content-Length header: a positive number covering the body, absent or
\* not positive, or not a number
ContentLengths == {"positive", "zero", "nonnumeric"}

\* JSON objects are sequences of members in document order: <<name, value>>
\* for a string value, <<name, "{}", members>> for an object value, and
\* WS for a run of whitespace between members
WS == <<" ">>
P_hi == << <<"input", "hi">>, <<"response_format", "mp3">> >>
P_wav == << <<"response_format", "wav">> >>

Body(kind, members) == [kind |-> kind, members |-> members]
NoBody == Body("unread", <<>>)
RequestBodies ==
    { Body("object", P_hi), Body("object", P_wav),
      Body("malformed", <<>>),      \* valid UTF-8, not JSON
      Body("nonutf8", <<>>),        \* bytes that are not UTF-8
      Body("array", <<>>) }         \* valid JSON, not an object

AuthHeaders == {None, <<"Bearer", "client">>}
EnvKeys == {None, <<"sk-env">>}

PreferredKeys == {None, <<"a", "/", "b">>, <<".", ".", "/">>}
AlnumChars == {"a", "b"}

(* ---------------- upstream ---------------- *)
AudioBody(b) == [i \in 1..BodyLen |-> b]
AudioBodies == { AudioBody(b) : b \in 1..NBodies }

CT_MPEG == <<"audio", "mpeg">>
CT_JSON == <<"application", "json">>
CT_HTML == <<"text", "html">>
CT_PLAIN == <<"text", "plain">>
\* what urlopen can return: a 2xx status and the Content-Type header
UpstreamOk ==
    { [status |-> 200, ctype |-> CT_MPEG], [status |-> 200, ctype |-> None],
      [status |-> 200, ctype |-> CT_JSON], [status |-> 204, ctype |-> CT_MPEG] }
UpstreamErrStatus == {503}

(* ---------------- pure functions of the source ---------------- *)
\* dict.get(name, default) on the parsed object
Get(members, name, default) ==
    IF \E i \in 1..Len(members) : members[i][1] = name
    THEN members[CHOOSE i \in 1..Len(members) : members[i][1] = name][2]
    ELSE default

\* the member names of the inputs in lexicographic order, as sort_keys
\* orders them
SortedNames == <<"input", "name", "response_format", "speed", "voice">>

HasName(members, name) == \E i \in 1..Len(members) : members[i][1] = name

\* json.dumps(payload, ensure_ascii=False, sort_keys=True,
\*            separators=(',', ':')): the members in name order
RECURSIVE DumpSorted(_, _)
\* json.dumps without sort_keys: the members in the order of the dict
RECURSIVE DumpUnsorted(_, _)
DumpUnsorted(members, names) ==
    IF members = <<>> THEN <<>>
    ELSE LET m == Head(members)
         IN <<m[1], ":">>
            \o (IF Len(m) = 3
                THEN <<"{">> \o DumpUnsorted(m[3], names) \o <<"}">>
                ELSE <<m[2]>>)
            \o <<",">> \o DumpUnsorted(Tail(members), names)

DumpSorted(members, names) ==
    IF names = <<>> THEN <<>>
    ELSE (IF HasName(members, Head(names))
          THEN LET m == members[CHOOSE i \in 1..Len(members) :
                                    members[i][1] = Head(names)]
               IN <<Head(names), ":">>
                  \o (IF Len(m) = 3
                      THEN <<"{">> \o DumpSorted(m[3], SortedNames) \o <<"}">>
                      ELSE <<m[2]>>)
                  \o <<",">>
          ELSE <<>>) \o DumpSorted(members, Tail(names))

\* sha256(...).hexdigest(), collision free
Sha256Hex(text) == <<"sha256">> \o text

stable_cache_key(payload) == Sha256Hex(<<"{">> \o DumpSorted(payload, SortedNames) \o <<"}">>)

\* json.loads on the text of an object: whitespace is skipped, at every
\* depth, and the members are kept in document order
RECURSIVE json_loads(_)
json_loads(text) ==
    IF text = <<>> THEN <<>>
    ELSE LET h == Head(text)
         IN (IF Len(h) = 1 THEN <<>>
             ELSE IF Len(h) = 3 THEN << <<h[1], h[2], json_loads(h[3])>> >>
             ELSE <<h>>) \o json_loads(Tail(text))

read_json_body_lenient(clen, body) ==
    IF clen = "nonnumeric" THEN [exc |-> "ValueError", value |-> NoBody]
    ELSE IF clen = "zero" THEN [exc |-> "none", value |-> Body("object", <<>>)]
    ELSE IF body.kind = "nonutf8" THEN [exc |-> "UnicodeDecodeError", value |-> NoBody]
    ELSE IF body.kind = "malformed" THEN [exc |-> "none", value |-> Body("object", <<>>)]
    ELSE [exc |-> "none", value |-> Body(body.kind, json_loads(body.members))]

\* read_json_body: the exception raised ("none" when it returns) and the
\* value returned.  int() of a non-number raises ValueError, decode() of
\* bytes that are not UTF-8 raises UnicodeDecodeError, json.loads of text
\* that is not JSON raises JSONDecodeError; only the last is caught.
read_json_body(clen, body) ==
    IF clen = "nonnumeric" THEN [exc |-> "ValueError", value |-> NoBody]
    ELSE IF clen = "zero" THEN [exc |-> "none", value |-> Body("object", <<>>)]
    ELSE IF body.kind = "nonutf8" THEN [exc |-> "UnicodeDecodeError", value |-> NoBody]
    ELSE IF body.kind = "malformed" THEN [exc |-> "JSONDecodeError", value |-> NoBody]
    ELSE [exc |-> "none", value |-> Body(body.kind, json_loads(body.members))]

\* lines 127-133: the key after the X-Preferred-Cache-Key header is applied
StripChars == {"-", "_", ".", " "}
KeyChars == AlnumChars \cup {"-", "_"}

safe_key_unfiltered(preferred_key) ==
    Take(Strip(preferred_key, StripChars), MaxKeyLen)

safe_key(preferred_key) ==
    Take(Strip(FilterChars(preferred_key, KeyChars), StripChars), MaxKeyLen)

cache_key(payload, preferred_key) ==
    IF preferred_key # None /\ preferred_key # <<>> /\ safe_key(preferred_key) # <<>>
    THEN safe_key(preferred_key)
    ELSE stable_cache_key(payload)

\* line 135 and line 204: the final path and the temporary path of a key
mp3_path(key) == <<key, ".mp3">>
tmp_path_in_place(key) == <<key, ".mp3">>
tmp_path(key) == <<key, ".mp3.part">>

\* line 202
Cacheable_any_2xx(status, ctype) == TRUE
Cacheable(status, ctype) == status = 200 /\ ctype[1] = "audio"

\* lines 110-114
resolve_auth_anonymous(header, env_key) ==
    IF header # None /\ header # <<>> THEN header ELSE <<"Bearer">>

resolve_auth(header, env_key) ==
    IF header # None /\ header # <<>> THEN header
    ELSE IF env_key # None /\ env_key # <<>> THEN <<"Bearer">> \o env_key
    ELSE None

(* ---------------- responses ---------------- *)
Bytes(data) == [kind |-> "bytes", data |-> data]
JsonError == [kind |-> "json_error", data |-> <<>>]
HtmlError == [kind |-> "html_error", data |-> <<>>]
TextError == [kind |-> "text_error", data |-> <<>>]
Empty == [kind |-> "empty", data |-> <<>>]

\* an HTTPError of the upstream: its Content-Type header and its body
UpstreamErrors ==
    { [ctype |-> CT_JSON, body |-> JsonError], [ctype |-> None, body |-> TextError] }

Response(status, cors, ctype, xcache, body) ==
    [status |-> status, cors |-> cors, ctype |-> ctype, xcache |-> xcache, body |-> body]

\* send_response(code): a status line, no header of the handler's yet
send_response(code) == Response(code, FALSE, None, "none", Empty)

\* put_cors_headers: the four Access-Control-* headers
put_cors_headers(r) == [r EXCEPT !.cors = TRUE]

\* BaseHTTPRequestHandler.send_error: status line, its own headers
\* (Content-Type text/html, Connection close) and an HTML page; the CORS
\* headers are not among them
send_error(code) == [send_response(code) EXCEPT !.ctype = CT_HTML, !.body = HtmlError]

\* send_response, put_cors_headers, Content-Type application/json and
\* json.dumps({'error': ...})
json_error(code) ==
    [put_cors_headers(send_response(code)) EXCEPT !.ctype = CT_JSON, !.body = JsonError]

\* the audio answer of a hit or a miss
audio_response(status, xcache, data) ==
    [put_cors_headers(send_response(status)) EXCEPT
        !.ctype = CT_MPEG, !.xcache = xcache, !.body = Bytes(data)]

(* ---------------- state ---------------- *)
VARIABLES
    files,      \* CACHE_DIR: a function from the paths that exist to their bytes
    cur,        \* the request the server's only thread is handling
    env_key,    \* OPENAI_API_KEY of the process
    stored,     \* history: per key, the body relayed by the miss that stored it
    first,      \* history: the body of the first miss relay on WatchedKey
    derive      \* the key derivation taken alone: its inputs and results

vars == <<files, cur, env_key, stored, first, derive>>

\* the key of Scenario 1's request
WatchedKey == stable_cache_key(P_hi)
NoRelay == <<0>>

Unread == <<"unread">>

Idle ==
    [pc |-> "idle", method |-> "none", path |-> Unread, clen |-> "unread",
     body |-> NoBody, authorization |-> Unread,
     key |-> Unread, status |-> 0, ctype |-> Unread, data |-> <<>>,
     err_body |-> Empty,
     calls |-> 0, lookups |-> 0, reads |-> 0, writes |-> 0,
     resp |-> <<>>, term |-> "none", prior |-> "none"]

NoDerive == [pc |-> "none", d1 |-> <<>>, d2 |-> <<>>, hdr |-> None,
             k1 |-> <<>>, k2 |-> <<>>, key |-> <<>>]

Exists_never(path) == FALSE
Exists(path) == path \in DOMAIN files

\* Path.write_bytes: open(path, 'wb') creates or truncates the file
Truncate(fs, path) ==
    [q \in DOMAIN fs \cup {path} |-> IF q = path THEN <<>> ELSE fs[q]]

\* one write() of the next byte of data to the open file
AppendByte(fs, path, data) ==
    [fs EXCEPT ![path] = Append(@, data[Len(@) + 1])]

\* os.replace(src, dst): dst names src's file, src is gone, in one step
Replace(fs, src, dst) ==
    IF src = dst THEN fs
    ELSE [q \in (DOMAIN fs \ {src}) \cup {dst} |-> IF q = dst THEN fs[src] ELSE fs[q]]

\* the value line 95 binds to payload
Payload(c) == read_json_body(c.clen, c.body).value

Done(c, term) == [c EXCEPT !.pc = "done", !.term = term]
Reply(c, r, term) == Done([c EXCEPT !.resp = Append(@, r)], term)

Init ==
    /\ files = << >>
    /\ cur = Idle
    /\ env_key \in EnvKeys
    /\ stored = << >>
    /\ first = NoRelay
    /\ derive = NoDerive

(* ---------------- the server ---------------- *)
\* serve_forever: HTTPServer has one thread, so the next connection is
\* taken only once the previous handler has returned; the request line is
\* parsed into method and path
Accept(method, path) ==
    /\ cur.pc \in {"idle", "done"}
    /\ cur' = [Idle EXCEPT !.pc = "dispatch", !.method = method, !.path = path]
    /\ UNCHANGED <<files, env_key, stored, first, derive>>

\* a method without a do_<method>: handle_one_request answers 501
UnsupportedMethod ==
    /\ cur.pc = "dispatch"
    /\ cur.method \notin {"POST", "OPTIONS"}
    /\ cur' = Reply(cur, send_error(501), "Unsupported")
    /\ UNCHANGED <<files, env_key, stored, first, derive>>

do_OPTIONS ==
    /\ cur.pc = "dispatch"
    /\ cur.method = "OPTIONS"
    /\ cur' = IF cur.path = SPEECH_PATH
              THEN Reply(cur, put_cors_headers(send_response(204)), "Preflight")
              ELSE Reply(cur, put_cors_headers(send_response(404)), "NotFound")
    /\ UNCHANGED <<files, env_key, stored, first, derive>>

(* ---------------- do_POST, in the order of its statements ---------------- *)
\* lines 88-92
PostRoute ==
    /\ cur.pc = "dispatch"
    /\ cur.method = "POST"
    /\ cur' = IF cur.path # SPEECH_PATH
              THEN Reply(cur, put_cors_headers(send_response(404)), "NotFound")
              ELSE [cur EXCEPT !.pc = "read_body"]
    /\ UNCHANGED <<files, env_key, stored, first, derive>>

\* lines 94-97 with read_json_body: JSONDecodeError is answered by
\* send_error(400) and re-raised; every exception makes do_POST return
ReadBody(clen, body) ==
    /\ cur.pc = "read_body"
    /\ LET r == read_json_body(clen, body)
           c == [cur EXCEPT !.clen = clen,
                            !.body = IF clen = "positive" THEN body ELSE NoBody]
       IN cur' = IF r.exc = "JSONDecodeError" THEN Reply(c, send_error(400), "Rejected")
                 ELSE IF r.exc # "none" THEN Done(c, "Swallowed")
                 ELSE [c EXCEPT !.pc = "validate"]
    /\ UNCHANGED <<files, env_key, stored, first, derive>>

\* lines 100-107: payload.get exists only on a dict; on any other JSON
\* value the AttributeError leaves do_POST and the connection is closed
Validate ==
    /\ cur.pc = "validate"
    /\ cur' = IF Payload(cur).kind # "object" THEN Done(cur, "Crashed")
              ELSE IF Get(Payload(cur).members, "response_format", "mp3") # "mp3"
              THEN Reply(cur, json_error(400), "Rejected")
              ELSE [cur EXCEPT !.pc = "auth"]
    /\ UNCHANGED <<files, env_key, stored, first, derive>>

\* lines 110-121
ResolveAuth(header) ==
    /\ cur.pc = "auth"
    /\ LET c == [cur EXCEPT !.authorization = header]
       IN cur' = IF resolve_auth(header, env_key) = None
                 THEN Reply(c, json_error(401), "Unauthorized")
                 ELSE [c EXCEPT !.pc = "key"]
    /\ UNCHANGED <<files, env_key, stored, first, derive>>

\* lines 124-135
DeriveKey(preferred_key) ==
    /\ cur.pc = "key"
    /\ cur' = [cur EXCEPT !.pc = "lookup",
                          !.key = cache_key(Payload(cur).members, preferred_key)]
    /\ UNCHANGED <<files, env_key, stored, first, derive>>

\* the request that follows line 166: urlopen is entered
Dispatch_with_retry(c) == [c EXCEPT !.pc = "urlopen", !.calls = @ + 2]
Dispatch(c) == [c EXCEPT !.pc = "urlopen", !.calls = @ + 1]

\* history: what earlier requests did with this key
Prior(key) ==
    IF key \in DOMAIN stored THEN "stored"
    ELSE IF key = WatchedKey /\ first # NoRelay THEN "relayed"
    ELSE "none"

\* line 138: mp3_path.exists()
Lookup ==
    /\ cur.pc = "lookup"
    /\ LET c == [cur EXCEPT !.lookups = @ + 1, !.prior = Prior(cur.key)]
       IN cur' = IF Exists(mp3_path(cur.key))
                 THEN [c EXCEPT !.pc = "read_cache"]
                 ELSE Dispatch(c)
    /\ UNCHANGED <<files, env_key, stored, first, derive>>

\* lines 141-147: the answer of a hit
hit_response_empty(data) == audio_response(200, "HIT", <<>>)
hit_response(data) == audio_response(200, "HIT", data)

\* lines 149-152: the read raised
read_failed_as_miss(c) == Dispatch(c)
read_failed(c) == Reply(c, send_error(500), "ReadFailed")

\* lines 139-152: read_bytes either returns the file or raises
ReadCache(ok) ==
    /\ cur.pc = "read_cache"
    /\ LET c == [cur EXCEPT !.reads = @ + 1]
       IN cur' = IF ok
                 THEN Reply([c EXCEPT !.data = files[mp3_path(cur.key)]],
                            hit_response(files[mp3_path(cur.key)]),
                            "HitServing")
                 ELSE read_failed(c)
    /\ UNCHANGED <<files, env_key, stored, first, derive>>

\* lines 169-172: urlopen returns a response with a 2xx status
UpstreamResponse(status, ctype, data) ==
    /\ cur.pc = "urlopen"
    /\ LET ct == IF ctype = None THEN CT_MPEG ELSE ctype
       IN cur' = [cur EXCEPT !.status = status, !.ctype = ct, !.data = data,
                             !.pc = IF Cacheable(status, ct) THEN "persist_open" ELSE "relay"]
    /\ UNCHANGED <<files, env_key, stored, first, derive>>

\* lines 175-181: the answer that relays an HTTPError
relay_error_as_502(code, ctype, err_body) == json_error(502)

relay_error(code, ctype, err_body) ==
    [put_cors_headers(send_response(code)) EXCEPT
        !.ctype = IF ctype = None THEN CT_PLAIN ELSE ctype,
        !.body = err_body]

\* lines 173-183: HTTPError, relayed
UpstreamHTTPError(code, ctype, err_body) ==
    /\ cur.pc = "urlopen"
    /\ cur' = Reply([cur EXCEPT !.status = code, !.err_body = err_body],
                    relay_error(code, ctype, err_body), "UpstreamError")
    /\ UNCHANGED <<files, env_key, stored, first, derive>>

\* lines 184-191: URLError, no response from the upstream
UpstreamURLError ==
    /\ cur.pc = "urlopen"
    /\ cur' = Reply(cur, json_error(502), "UpstreamUnreachable")
    /\ UNCHANGED <<files, env_key, stored, first, derive>>

\* lines 192-199: any other exception of urlopen or resp.read()
UpstreamOtherError ==
    /\ cur.pc = "urlopen"
    /\ cur' = Reply(cur, json_error(500), "UnexpectedError")
    /\ UNCHANGED <<files, env_key, stored, first, derive>>

\* line 205, the open of write_bytes: the temporary file is created or
\* truncated, or the open raises and line 208 logs it
PersistOpen(ok) ==
    /\ cur.pc = "persist_open"
    /\ IF ok
       THEN /\ files' = Truncate(files, tmp_path(cur.key))
            /\ cur' = [cur EXCEPT !.pc = "persist_write"]
       ELSE /\ files' = files
            /\ cur' = [cur EXCEPT !.pc = "relay"]
    /\ UNCHANGED <<env_key, stored, first, derive>>

\* line 205, the writes of write_bytes, a byte at a time; a failed write
\* leaves the bytes written so far in the temporary file
PersistWrite(ok) ==
    /\ cur.pc = "persist_write"
    /\ IF ok
       THEN /\ files' = AppendByte(files, tmp_path(cur.key), cur.data)
            /\ cur' = [cur EXCEPT !.pc =
                          IF Len(files'[tmp_path(cur.key)]) = Len(cur.data)
                          THEN "persist_replace" ELSE "persist_write"]
       ELSE /\ files' = files
            /\ cur' = [cur EXCEPT !.pc = "relay"]
    /\ UNCHANGED <<env_key, stored, first, derive>>

\* line 206
PersistReplace(ok) ==
    /\ cur.pc = "persist_replace"
    /\ IF ok
       THEN /\ files' = Replace(files, tmp_path(cur.key), mp3_path(cur.key))
            /\ cur' = [cur EXCEPT !.pc = "relay", !.writes = @ + 1]
       ELSE /\ files' = files
            /\ cur' = [cur EXCEPT !.pc = "relay"]
    /\ UNCHANGED <<env_key, stored, first, derive>>

\* lines 211-217
Relay ==
    /\ cur.pc = "relay"
    /\ cur' = Reply(cur, audio_response(cur.status, "MISS", cur.data), "MissServing")
    /\ stored' = IF cur.writes = 0 THEN stored
                 ELSE [k \in DOMAIN stored \cup {cur.key} |->
                         IF k = cur.key THEN cur.data ELSE stored[k]]
    /\ first' = IF cur.key = WatchedKey /\ first = NoRelay THEN cur.data ELSE first
    /\ UNCHANGED <<files, env_key, derive>>

Next ==
    \/ \E m \in Methods, p \in Paths : Accept(m, p)
    \/ UnsupportedMethod
    \/ do_OPTIONS
    \/ PostRoute
    \/ \E cl \in ContentLengths, b \in RequestBodies : ReadBody(cl, b)
    \/ Validate
    \/ \E h \in AuthHeaders : ResolveAuth(h)
    \/ \E k \in PreferredKeys : DeriveKey(k)
    \/ Lookup
    \/ \E ok \in BOOLEAN : ReadCache(ok)
    \/ \E u \in UpstreamOk, d \in AudioBodies :
          UpstreamResponse(u.status, u.ctype, d)
    \/ \E st \in UpstreamErrStatus, e \in UpstreamErrors :
          UpstreamHTTPError(st, e.ctype, e.body)
    \/ UpstreamURLError
    \/ UpstreamOtherError
    \/ \E ok \in BOOLEAN : PersistOpen(ok)
    \/ \E ok \in BOOLEAN : PersistWrite(ok)
    \/ \E ok \in BOOLEAN : PersistReplace(ok)
    \/ Relay

Spec == Init /\ [][Next]_vars

(* ---------------- properties ---------------- *)
Finished == cur.pc = "done"
CacheFiles(fs) == { p \in DOMAIN fs : p[2] = ".mp3" }
MissPcs == {"urlopen", "persist_open", "persist_write", "persist_replace", "relay"}
MissTerms == {"UpstreamError", "UpstreamUnreachable", "UnexpectedError", "MissServing"}

\* C1: in every reachable state each final path <key>.mp3 that exists holds
\* a complete upstream body; the bytes of a write in progress are only ever
\* in the temporary path.
C1_Thm == \A p \in CacheFiles(files) : files[p] \in AudioBodies

C1_Witness ==
    /\ cur.pc = "persist_write"
    /\ Len(files[tmp_path(cur.key)]) \in 1..(BodyLen - 1)
    /\ CacheFiles(files) # {}

\* C2 as claimed, for the key of Scenario 1: once a miss on the key has
\* relayed body B with a success status, every later request with the key
\* is answered 200, X-Cache HIT, body B, without an upstream call.
C2_Original ==
    (Finished /\ cur.key = WatchedKey /\ cur.prior # "none")
        => /\ cur.resp = <<audio_response(200, "HIT", first)>>
           /\ cur.calls = 0

\* C2 amended: once a miss on a key has stored its entry and relayed body
\* B, every later request with the key makes no upstream call and is
\* answered 200, X-Cache HIT, body B, or 500 when reading the entry fails.
C2_Thm ==
    (Finished /\ cur.prior = "stored")
        => /\ cur.calls = 0
           /\ \/ cur.resp = <<audio_response(200, "HIT", stored[cur.key])>>
              \/ cur.term = "ReadFailed" /\ cur.resp = <<send_error(500)>>

C2_Witness ==
    /\ Finished
    /\ cur.prior = "stored"
    /\ cur.term = "HitServing"
    /\ cur.resp = <<audio_response(200, "HIT", stored[cur.key])>>

\* C3: a step that brings a cache file into existence is the rename of a
\* miss whose upstream status is 200 and whose content type is audio, and
\* a request that ended in an error status has created no cache file.
C3_Creates ==
    (CacheFiles(files') # CacheFiles(files))
        => /\ cur.pc = "persist_replace"
           /\ cur.calls = 1
           /\ cur.status = 200
           /\ cur.ctype[1] = "audio"
           /\ CacheFiles(files') = CacheFiles(files) \cup {mp3_path(cur.key)}

C3_ErrorsWriteNothing ==
    (Finished /\ (cur.resp = <<>> \/ \E i \in 1..Len(cur.resp) : cur.resp[i].status >= 400))
        => cur.writes = 0

C3_Thm == [][C3_Creates]_vars /\ []C3_ErrorsWriteNothing

C3_Witness ==
    /\ Finished
    /\ cur.term = "MissServing"
    /\ cur.writes = 1
    /\ Exists(mp3_path(cur.key))

\* C4: a request makes at most one upstream call: none when it ends as a
\* hit, a preflight, a rejection, unauthorized or not found, and exactly
\* one once it is on the miss path.
C4_Thm ==
    /\ cur.calls <= 1
    /\ cur.term \in {"HitServing", "Preflight", "Rejected", "Unauthorized", "NotFound"}
          => cur.calls = 0
    /\ (cur.pc \in MissPcs \/ cur.term \in MissTerms) => cur.calls = 1

C4_Witness == Finished /\ cur.term = "MissServing" /\ cur.calls = 1

\* C5: a request whose handler has returned has produced exactly one
\* response.
C5_Claim == Finished => Len(cur.resp) = 1

\* C6: a POST that passed validation, has no Authorization header and
\* finds no OPENAI_API_KEY is answered 401 with the JSON error, and has
\* made no cache lookup, no cache read and no upstream call.
C6_Thm ==
    (cur.authorization = None /\ env_key = None)
        => /\ Finished
           /\ cur.resp = <<json_error(401)>>
           /\ cur.key = Unread
           /\ cur.lookups = 0 /\ cur.reads = 0 /\ cur.calls = 0

C6_Witness ==
    /\ cur.authorization = None
    /\ env_key = None
    /\ Finished
    /\ Exists(mp3_path(stable_cache_key(Payload(cur).members)))

\* C7: a body that is not JSON, or an object whose response_format is
\* present and not mp3, is answered 400 before the credential, the key,
\* the cache or the upstream is touched; an object without
\* response_format passes validation.
NoFurtherProcessing ==
    /\ cur.authorization = Unread
    /\ cur.key = Unread
    /\ cur.lookups = 0 /\ cur.reads = 0 /\ cur.calls = 0 /\ cur.writes = 0

C7_Thm ==
    /\ (cur.clen = "positive" /\ cur.body.kind = "malformed")
          => /\ Finished
             /\ Len(cur.resp) = 1 /\ cur.resp[1].status = 400
             /\ NoFurtherProcessing
    /\ (/\ cur.clen = "positive" /\ cur.body.kind = "object"
        /\ HasName(cur.body.members, "response_format")
        /\ Get(cur.body.members, "response_format", "mp3") # "mp3"
        /\ cur.pc # "validate")
          => /\ Finished
             /\ Len(cur.resp) = 1 /\ cur.resp[1].status = 400
             /\ NoFurtherProcessing
    /\ (/\ cur.clen \in {"positive", "zero"}
        /\ Payload(cur).kind = "object"
        /\ ~HasName(Payload(cur).members, "response_format")
        /\ cur.pc # "validate")
          => /\ cur.term # "Rejected"
             /\ cur.pc = "auth" \/ cur.authorization # Unread

C7_Witness ==
    /\ Finished
    /\ cur.clen = "positive" /\ cur.body.kind = "malformed"
    /\ cur.resp = <<send_error(400)>>

\* C8: on the miss path an HTTPError of the upstream is answered with the
\* upstream's status and body, a URLError with 502, any other exception
\* with 500, and in each case the key has no cache entry afterwards.
C8_Thm ==
    /\ cur.term = "UpstreamError"
          => /\ Len(cur.resp) = 1
             /\ cur.resp[1].status = cur.status
             /\ cur.resp[1].body = cur.err_body
    /\ cur.term = "UpstreamUnreachable"
          => Len(cur.resp) = 1 /\ cur.resp[1].status = 502
    /\ cur.term = "UnexpectedError"
          => Len(cur.resp) = 1 /\ cur.resp[1].status = 500
    /\ cur.term \in {"UpstreamError", "UpstreamUnreachable", "UnexpectedError"}
          => /\ cur.calls = 1
             /\ cur.writes = 0
             /\ ~Exists(mp3_path(cur.key))

C8_Witness ==
    /\ cur.term = "UpstreamError"
    /\ cur.status = 503
    /\ cur.resp = <<relay_error(503, CT_JSON, JsonError)>>
    /\ ~Exists(mp3_path(cur.key))

\* C9: every response of do_POST and do_OPTIONS with an error status
\* carries the CORS headers.
C9_Claim ==
    cur.method \in {"POST", "OPTIONS"}
        => \A i \in 1..Len(cur.resp) : cur.resp[i].status >= 400 => cur.resp[i].cors

\* C10: every response of do_POST and do_OPTIONS with an error status
\* has the JSON error object as its body, and raw audio bytes are the
\* body of 2xx responses only.
C10_Claim ==
    cur.method \in {"POST", "OPTIONS"} => \A i \in 1..Len(cur.resp) :
        /\ cur.resp[i].status >= 400 => cur.resp[i].body = JsonError
        /\ cur.resp[i].body.kind = "bytes" => cur.resp[i].status \in 200..299

\* C11: a request that is not POST or OPTIONS on /v1/audio/speech is
\* answered 404 with the CORS headers.
C11_Claim ==
    (Finished /\ ~(cur.method \in {"POST", "OPTIONS"} /\ cur.path = SPEECH_PATH))
        => cur.resp = <<put_cors_headers(send_response(404))>>

\* C12: a step never changes the bytes of an existing <key>.mp3 and never
\* removes it.
C12_Thm ==
    [][\A p \in CacheFiles(files) : p \in DOMAIN files' /\ files'[p] = files[p]]_vars

C12_Witness ==
    /\ Finished
    /\ cur.prior = "stored"
    /\ cur.lookups = 1
    /\ files[mp3_path(cur.key)] = stored[cur.key]
    /\ \E k \in DOMAIN stored : k # cur.key

(* ---------------- the key derivation taken alone ---------------- *)
\* the texts of two members in either order, with and without whitespace
Layouts(a, b) == { <<a, b>>, <<b, a>>, <<a, WS, b>>, <<WS, b, a, WS>> }

\* texts of the object that is the "voice" member of a nested payload
VoiceTexts ==
    Layouts(<<"name", "alloy">>, <<"speed", "1">>)
        \cup { << <<"name", "alloy">> >>, << <<"name", "1">>, <<"speed", "alloy">> >> }

\* request payloads as texts: nested ones in every layout, and flat ones
KeyDocs ==
    UNION { Layouts(<<"input", i>>, <<"voice", "{}", v>>) :
                i \in {"hi", "yo"}, v \in VoiceTexts }
        \cup { P_hi, << <<"input", "hi">>, <<"voice", "{}">> >>,
               << <<"input", "hi">>, <<"voice", "{}", <<>> >> >> }

\* X-Preferred-Cache-Key values: absent, empty, with separators and dots, only
\* stripped characters, and longer than the limit
LongKey == [i \in 1..(MaxKeyLen + 3) |-> IF i = 3 THEN "/" ELSE "a"]
KeyHeaders ==
    { None, <<>>, <<"a", "/", "b">>, <<".", ".", "/">>, <<"-", "_", " ">>,
      <<"-", "a", " ", "b", "_">>, LongKey }

InitKey ==
    /\ files = << >>
    /\ cur = Idle
    /\ env_key = None
    /\ stored = << >>
    /\ first = NoRelay
    /\ derive \in [pc : {"input"}, d1 : KeyDocs, d2 : KeyDocs, hdr : KeyHeaders,
                   k1 : {<<>>}, k2 : {<<>>}, key : {<<>>}]

\* line 124 on each of the two payloads
HashPayloads ==
    /\ derive.pc = "input"
    /\ derive' = [derive EXCEPT !.pc = "hashed",
                                !.k1 = stable_cache_key(json_loads(derive.d1)),
                                !.k2 = stable_cache_key(json_loads(derive.d2))]
    /\ UNCHANGED <<files, cur, env_key, stored, first>>

\* lines 124-133 on the first payload and the header
ApplyOverride ==
    /\ derive.pc = "hashed"
    /\ derive' = [derive EXCEPT !.pc = "keyed",
                                !.key = cache_key(json_loads(derive.d1), derive.hdr)]
    /\ UNCHANGED <<files, cur, env_key, stored, first>>

NextKey == HashPayloads \/ ApplyOverride

SpecKey == InitKey /\ [][NextKey]_vars

\* the members of a text, whitespace apart
MemberIdx(text) == { i \in 1..Len(text) : Len(text[i]) > 1 }

\* two texts denote the same object: the same names, and under each name
\* the same string or, recursively, the same object
RECURSIVE SameContent(_, _)
SameContent(a, b) ==
    /\ { a[i][1] : i \in MemberIdx(a) } = { b[j][1] : j \in MemberIdx(b) }
    /\ \A i \in MemberIdx(a), j \in MemberIdx(b) :
          a[i][1] = b[j][1] =>
              /\ Len(a[i]) = Len(b[j])
              /\ a[i][2] = b[j][2]
              /\ Len(a[i]) = 3 => SameContent(a[i][3], b[j][3])

\* C13: two payloads that differ only in member order or whitespace, at any
\* depth, derive the same key, and deriving the key of a payload again
\* gives the same key.
C13_Thm ==
    /\ (derive.pc \in {"hashed", "keyed"} /\ SameContent(derive.d1, derive.d2))
           => derive.k1 = derive.k2
    /\ (derive.pc = "keyed" /\ derive.hdr = None) => derive.key = derive.k1

C13_Witness ==
    /\ derive.pc = "hashed"
    /\ SameContent(derive.d1, derive.d2)
    /\ json_loads(derive.d1) # json_loads(derive.d2)
    /\ \E i \in MemberIdx(derive.d1), j \in MemberIdx(derive.d2) :
          /\ Len(derive.d1[i]) = 3 /\ Len(derive.d2[j]) = 3
          /\ derive.d1[i][3] # derive.d2[j][3]
          /\ json_loads(derive.d1[i][3]) # json_loads(derive.d2[j][3])
          /\ MemberIdx(derive.d1[i][3]) # 1..Len(derive.d1[i][3])
    /\ derive.k1 = derive.k2

HasAlnum(header) == \E i \in 1..Len(header) : header[i] \in AlnumChars

\* C14: the key is the payload hash when the header is absent or holds no
\* letter or digit, and otherwise a non-empty string of at most 64
\* letters, digits, hyphens and underscores, so that <key>.mp3 names a file
\* directly in the cache directory.
C14_Thm ==
    derive.pc = "keyed" =>
        IF derive.hdr = None \/ ~HasAlnum(derive.hdr)
        THEN derive.key = derive.k1
        ELSE /\ derive.key # <<>>
             /\ Len(derive.key) <= MaxKeyLen
             /\ \A i \in 1..Len(derive.key) :
                   /\ derive.key[i] \in AlnumChars \cup {"-", "_"}
                   /\ derive.key[i] \notin {"/", "\\", "."}

C14_Witness ==
    /\ derive.pc = "keyed"
    /\ derive.hdr # None
    /\ Len(derive.hdr) > MaxKeyLen
    /\ \E i \in 1..Len(derive.hdr) : derive.hdr[i] = "/"
    /\ Len(derive.key) = MaxKeyLen
    /\ derive.key # derive.k1

\* C15: a request whose read of an existing entry failed is answered 500,
\* has made no upstream call and has written nothing, and the entry still
\* holds the bytes that were stored.
C15_Thm ==
    (cur.reads > 0 /\ cur.term # "HitServing")
        => /\ Finished
           /\ Len(cur.resp) = 1
           /\ cur.resp[1].status = 500
           /\ cur.calls = 0
           /\ cur.writes = 0
           /\ Exists(mp3_path(cur.key))
           /\ files[mp3_path(cur.key)] = stored[cur.key]

C15_Witness ==
    /\ cur.term = "ReadFailed"
    /\ cur.reads = 1
    /\ cur.resp = <<send_error(500)>>
    /\ files[mp3_path(cur.key)] \in AudioBodies

\* C16: a miss whose upstream answer was a success is answered with the
\* upstream status, the whole upstream body and X-Cache MISS whether or not
\* the entry was written, and when the write failed the final path does not
\* exist, as before the request.
C16_Thm ==
    (Finished /\ cur.calls = 1 /\ cur.status \in 200..299)
        => /\ cur.data \in AudioBodies
           /\ cur.resp = <<audio_response(cur.status, "MISS", cur.data)>>
           /\ (Cacheable(cur.status, cur.ctype) /\ cur.writes = 0)
                 => ~Exists(mp3_path(cur.key))

C16_Witness ==
    /\ Finished
    /\ cur.term = "MissServing"
    /\ Cacheable(cur.status, cur.ctype)
    /\ cur.writes = 0
    /\ Exists(tmp_path(cur.key))
    /\ Len(files[tmp_path(cur.key)]) \in 1..(BodyLen - 1)
    /\ cur.resp = <<audio_response(200, "MISS", cur.data)>>

\* C17: a request reads at most one entry, or makes at most one upstream
\* call and writes at most one entry, never both; only the storing steps
\* of a miss change the directory; and a preflight, not-found, rejected,
\* unauthorized or hit request has called no upstream and written nothing,
\* the first four without looking at a file.
C17_Counts ==
    /\ cur.reads <= 1 /\ cur.calls <= 1 /\ cur.writes <= 1
    /\ ~(cur.reads > 0 /\ cur.calls > 0)
    /\ cur.writes > 0 => cur.calls = 1
    /\ cur.term \in {"Preflight", "NotFound", "Rejected", "Unauthorized", "HitServing"}
          => cur.calls = 0 /\ cur.writes = 0
    /\ cur.term \in {"Preflight", "NotFound", "Rejected", "Unauthorized"}
          => cur.lookups = 0 /\ cur.reads = 0

C17_Frame ==
    files' # files
        => /\ cur.pc \in {"persist_open", "persist_write", "persist_replace"}
           /\ cur.calls = 1
           /\ cur.reads = 0

C17_Thm == []C17_Counts /\ [][C17_Frame]_vars

C17_Witness ==
    /\ Finished
    /\ cur.term = "MissServing"
    /\ cur.calls = 1
    /\ cur.writes = 1
    /\ cur.reads = 0
    /\ Exists(mp3_path(cur.key))
    /\ \E k \in DOMAIN stored : k # cur.key

C19_Claim ==
    cur.pc = "urlopen" => ENABLED (\E m \in Methods, p \in Paths : Accept(m, p))

\* C20: the answer of a hit is 200, X-Cache HIT and the bytes stored under
\* the key, with no upstream call, whatever the request's credential and
\* payload are.
C20_Thm ==
    cur.term = "HitServing"
        => /\ cur.resp = <<audio_response(200, "HIT", stored[cur.key])>>
           /\ cur.calls = 0

C20_Witness ==
    /\ cur.term = "HitServing"
    /\ cur.key = <<"a", "b">>
    /\ cur.key # stable_cache_key(Payload(cur).members)
    /\ cur.authorization = None
    /\ stable_cache_key(Payload(cur).members) \in DOMAIN stored
    /\ stored[stable_cache_key(Payload(cur).members)] # stored[cur.key]
    /\ cur.resp = <<audio_response(200, "HIT", stored[cur.key])>>

====
